---- MODULE Spec2Model ----
(***************************************************************************)
(* Concurrent task-execution toolkit of the healthcare API.                *)
(*                                                                         *)
(* Worker pool (internal/worker/pool.go): a buffered job channel, a        *)
(* buffered result channel, a quit channel, a cancellable context, a       *)
(* WaitGroup of worker goroutines, retry timers armed with                 *)
(* time.AfterFunc, and one result-draining goroutine.                      *)
(*                                                                         *)
(* Go channel semantics used throughout:                                   *)
(*   - a send on a closed channel panics, also inside a select;            *)
(*   - a select with several ready cases picks one of them at random;      *)
(*   - a select with a default case never blocks;                          *)
(*   - a receive on a closed channel first yields the buffered items.      *)
(*                                                                         *)
(* Batch processor and TTL cache (internal/concurrent/batch.go) and        *)
(* pipeline (internal/concurrent/pipeline.go): each has its own variables  *)
(* and its own specification; time is counted in whole ticks of a clock.   *)
(***************************************************************************)
EXTENDS Integers, Sequences, FiniteSets, TLC

\* ------------------------------------------------------------------ bounds
NumJobs == 2
NumWorkers == 1
QueueCapacity == 1
MaxRetriesBound == 2
MaxBatches == 3
MaxBatchSize == 2
MaxWorkersBound == 2
MaxStages == 2
MaxPipelineItems == 2
MaxBufferSize == 1
MaxTime == 3
MaxTtl == 2

Jobs == 1..NumJobs
Workers == 1..NumWorkers
NoJob == 0

\* Job types the producers use; only the first has a registered handler.
JobTypes == {"audit_log", "unknown"}

\* wp.handlers after the RegisterHandler calls that precede Start.
handlers == {"audit_log"}

VARIABLES
    started,            \* Start() has launched the workers and the result processor
    jobQueue,           \* wp.jobQueue: buffered items, oldest first
    jobQueueClosed,     \* close(wp.jobQueue) has run
    resultQueue,        \* wp.resultQueue: buffered items, oldest first
    resultQueueClosed,  \* close(wp.resultQueue) has run
    quitClosed,         \* close(wp.quit) has run
    ctxDone,            \* wp.cancel() has run: wp.ctx.Done() is closed
    stopPc,             \* position of the goroutine running Stop()
    wpc,                \* position of each worker goroutine
    wjob,               \* the job a worker holds (NoJob when none)
    job,                \* the Job structs: Type, Retries, MaxRetries
    timers,             \* per job: backoff of the armed time.AfterFunc, 0 when none
    panicked,           \* which goroutine panicked ("none" while the process lives)
    submitResult,       \* per job: what the producer's SubmitJob call returned
    invocations,        \* per job: number of handler.Handle calls made
    failures,           \* per job: number of handler.Handle calls that returned an error
    published,          \* per job: errors of the JobResults sent to the result queue
    retryDropped,       \* per job: its retry re-submission failed
    resultDropped,      \* per job: its result met a full result queue
    expired             \* per worker: the deadline of the running attempt's context has passed

poolVars == << started, jobQueue, jobQueueClosed, resultQueue, resultQueueClosed,
           quitClosed, ctxDone, stopPc, wpc, wjob, job, timers, panicked,
           submitResult, invocations, failures, published, retryDropped,
           resultDropped, expired >>

\* The nil error. A non-nil error is named by the batch (or the pipeline
\* stage) that returned it, counted from 1.
NoError == 0

\* Batch processor (internal/concurrent/batch.go), one call of Process.
VARIABLES
    bItems,             \* items: the input slice
    batchSize,          \* bp.batchSize
    maxWorkers,         \* bp.maxWorkers
    bPc,                \* position of the goroutine running Process
    batches,            \* batches := bp.createBatches(items)
    gpc,                \* position of each batch goroutine
    semaphore,          \* number of tokens buffered in the semaphore channel
    bErrChan,           \* errChan: buffered errors, oldest first (an error is named by its batch)
    bRet,               \* what Process returned
    bInvoked,           \* per batch: number of bp.processor calls made
    bOrder,             \* batch indexes in the order their bp.processor calls began
    bDoneOrder          \* batch indexes in the order their bp.processor calls returned

batchVars == << bItems, batchSize, maxWorkers, bPc, batches, gpc, semaphore,
                bErrChan, bRet, bInvoked, bOrder, bDoneOrder >>

\* The batch processor is not in use.
BatchIdle ==
    /\ bItems = << >>
    /\ batchSize = 1
    /\ maxWorkers = 1
    /\ bPc = "idle"
    /\ batches = << >>
    /\ gpc = << >>
    /\ semaphore = 0
    /\ bErrChan = << >>
    /\ bRet = [returned |-> FALSE, err |-> NoError]
    /\ bInvoked = << >>
    /\ bOrder = << >>
    /\ bDoneOrder = << >>

\* Pipeline (internal/concurrent/pipeline.go), one call of Process.
VARIABLES
    pItems,             \* items: the input slice
    nStages,            \* len(p.stages)
    bufferSize,         \* bufferSize
    pCtxDone,           \* the caller's ctx is cancelled
    pPc,                \* position of the goroutine running Process
    channels,           \* channels[0..nStages]: buffered items, oldest first
    chClosed,           \* per channel: close() has run on it
    fpc,                \* position of the feeder goroutine
    fIdx,               \* number of items the feeder has sent
    spc,                \* position of each stage goroutine
    observes,           \* per stage: its function gives up when ctx is cancelled
    cpc,                \* position of the collector goroutine
    sheld,              \* per stage: the items it has read and not yet emitted
    results,            \* the results slice the collector appends to
    cheld,              \* the items the collector has received and not yet appended
    pErrChan,           \* errChan: buffered stage errors, oldest first (named by stage)
    pRet,               \* what Process returned
    written             \* the items sent to the final channel, in order

pipelineVars == << pItems, nStages, bufferSize, pCtxDone, pPc, channels,
                   chClosed, fpc, fIdx, spc, observes, cpc, sheld, results,
                   cheld, pErrChan, pRet, written >>

\* The pipeline is not in use.
PipelineIdle ==
    /\ pItems = << >>
    /\ nStages = 0
    /\ bufferSize = 1
    /\ pCtxDone = FALSE
    /\ pPc = "idle"
    /\ channels = << >>
    /\ chClosed = << >>
    /\ fpc = "idle"
    /\ fIdx = 0
    /\ spc = << >>
    /\ observes = << >>
    /\ cpc = "idle"
    /\ sheld = << >>
    /\ results = << >>
    /\ cheld = << >>
    /\ pErrChan = << >>
    /\ pRet = [returned |-> FALSE, results |-> << >>, err |-> NoError]
    /\ written = << >>

\* TTL cache (internal/concurrent/batch.go, second part): one ConcurrentCache
\* with its cleanup goroutine and the goroutines that call its methods.
VARIABLES
    cItems,             \* items: key -> CacheItem (Value, ExpiresAt)
    cTtl,               \* ttl
    now,                \* time.Now()
    mutexWriter,        \* mutex: the goroutine holding the write lock, or NoHolder
    mutexReaders,       \* mutex: the goroutines holding the read lock
    callOp,             \* per caller: the method it is inside, with key and value
    callRet,            \* what the Get or Size that returned last returned
    cleanupPc,          \* position of the cleanup goroutine
    tickerC,            \* ticker.C holds a tick (the channel buffers one)
    lastWrite           \* per key: the most recent Set not undone by Delete or Clear

cacheVars == << cItems, cTtl, now, mutexWriter, mutexReaders, callOp, callRet,
                cleanupPc, tickerC, lastWrite >>

\* No cache has been constructed.
CacheIdle ==
    /\ cItems = << >>
    /\ cTtl = 2
    /\ now = 0
    /\ mutexWriter = "none"
    /\ mutexReaders = {}
    /\ callOp = << >>
    /\ callRet = [method |-> "none", key |-> "none", value |-> "zero",
                  found |-> FALSE, size |-> 0, at |-> 0]
    /\ cleanupPc = "idle"
    /\ tickerC = FALSE
    /\ lastWrite = << >>

\* Everything that is not the worker pool's, the batch processor's, the
\* pipeline's, the cache's.
notPool == << batchVars, pipelineVars, cacheVars >>
notBatch == << poolVars, pipelineVars, cacheVars >>
notPipeline == << poolVars, batchVars, cacheVars >>
notCache == << poolVars, batchVars, pipelineVars >>

vars == << poolVars, batchVars, pipelineVars, cacheVars >>

\* ------------------------------------------------------------ constructors

\* A Job struct before its producer fills it in.
NewJob == [Type |-> "", Retries |-> 0, MaxRetries |-> 0]

\* make(chan *Job, queueSize)
JobQueueCap_Plus1 == QueueCapacity + 1
JobQueueCap == QueueCapacity

\* make(chan *JobResult, queueSize)
ResultQueueCap_Plus1 == QueueCapacity + 1
ResultQueueCap == QueueCapacity

\* JobResult{JobID, Success: err == nil, Error: err}
JobResult(j, e) == [JobID |-> j, Success |-> (e = "nil"), Error |-> e]

\* NewWorkerPool: nothing started, channels open and empty.
PoolInit ==
    /\ started = FALSE
    /\ jobQueue = << >>
    /\ jobQueueClosed = FALSE
    /\ resultQueue = << >>
    /\ resultQueueClosed = FALSE
    /\ quitClosed = FALSE
    /\ ctxDone = FALSE
    /\ stopPc = "idle"
    /\ wpc = [w \in Workers |-> "notStarted"]
    /\ wjob = [w \in Workers |-> NoJob]
    /\ job = [j \in Jobs |-> NewJob]
    /\ timers = [j \in Jobs |-> 0]
    /\ panicked = "none"
    /\ submitResult = [j \in Jobs |-> "none"]
    /\ invocations = [j \in Jobs |-> 0]
    /\ failures = [j \in Jobs |-> 0]
    /\ published = [j \in Jobs |-> << >>]
    /\ retryDropped = [j \in Jobs |-> FALSE]
    /\ resultDropped = [j \in Jobs |-> FALSE]
    /\ expired = [w \in Workers |-> FALSE]

Alive == panicked = "none"

\* ------------------------------------------------------------------ Start

\* for i := 0; i < wp.workers; i++ { wp.wg.Add(1); go wp.worker(i) }
Spawned_AllButOne == Workers \ {NumWorkers}
Spawned == Workers

\* Start: wg.Add(1); go wp.worker(i) for each worker; go wp.processResults().
Start ==
    /\ Alive
    /\ ~started
    /\ stopPc = "idle"
    /\ started' = TRUE
    /\ wpc' = [w \in Workers |-> IF w \in Spawned THEN "select" ELSE wpc[w]]
    /\ UNCHANGED << jobQueue, jobQueueClosed, resultQueue, resultQueueClosed,
                    quitClosed, ctxDone, stopPc, wjob, job, timers, panicked,
                    submitResult, invocations, failures, published,
                    retryDropped, resultDropped, expired >>
    /\ UNCHANGED notPool

\* -------------------------------------------------------------- SubmitJob

\* The outcomes of SubmitJob's select in the current state.
\*   case wp.jobQueue <- job  is ready when the buffer has room, and also when
\*                            the channel is closed (the send then panics);
\*   case <-wp.ctx.Done()     is ready once cancel() has run;
\*   default                  is taken only when neither is ready.
SubmitOutcomes_NoDefault ==
    LET sendReady == jobQueueClosed \/ Len(jobQueue) < JobQueueCap
        send == IF jobQueueClosed THEN {"panic"} ELSE {"nil"}
    IN  (IF sendReady THEN send ELSE {}) \cup
        (IF ctxDone THEN {"Canceled"} ELSE {})
SubmitOutcomes ==
    LET sendReady == jobQueueClosed \/ Len(jobQueue) < JobQueueCap
        send == IF jobQueueClosed THEN {"panic"} ELSE {"nil"}
    IN  IF ~sendReady /\ ~ctxDone
          THEN {"ErrQueueFull"}
          ELSE (IF sendReady THEN send ELSE {}) \cup
               (IF ctxDone THEN {"Canceled"} ELSE {})

\* The job channel after SubmitJob(j) ended with outcome r.
Enqueued_Twice(j, r) ==
    IF r = "nil" THEN Append(Append(jobQueue, j), j) ELSE jobQueue
Enqueued(j, r) == IF r = "nil" THEN Append(jobQueue, j) ELSE jobQueue

\* A producer creates Job j (Retries 0) and calls SubmitJob on it, once.
SubmitJob(j, t, m) ==
    /\ Alive
    /\ submitResult[j] = "none"
    /\ \E r \in SubmitOutcomes :
          /\ submitResult' = [submitResult EXCEPT ![j] = r]
          /\ jobQueue' = Enqueued(j, r)
          /\ panicked' = IF r = "panic" THEN "SubmitJob" ELSE panicked
    /\ job' = [job EXCEPT ![j] = [Type |-> t, Retries |-> 0, MaxRetries |-> m]]
    /\ UNCHANGED << started, jobQueueClosed, resultQueue, resultQueueClosed,
                    quitClosed, ctxDone, stopPc, wpc, wjob, timers,
                    invocations, failures, published, retryDropped,
                    resultDropped, expired >>
    /\ UNCHANGED notPool

\* ----------------------------------------------------------------- worker

\* handler, exists := wp.handlers[job.Type]
HandlerExists_Always(t) == TRUE
HandlerExists(t) == t \in handlers

\* The worker goroutine is at the select of its for loop; one that returned
\* (case <-wp.quit, or a nil job) is gone.
AtSelect_OrExited(w) == wpc[w] \in {"select", "exited"}
AtSelect(w) == wpc[w] = "select"

\* worker: case job := <-wp.jobQueue, then processJob up to the handler call
\* (or up to the blocking send of the ErrNoHandler result). The case is ready
\* whenever an item is buffered, whether or not quit is closed.
WorkerReceive(w) ==
    /\ Alive
    /\ AtSelect(w)
    /\ jobQueue # << >>
    /\ LET j == Head(jobQueue) IN
          /\ jobQueue' = Tail(jobQueue)
          /\ wjob' = [wjob EXCEPT ![w] = j]
          /\ IF HandlerExists(job[j].Type)
               THEN /\ wpc' = [wpc EXCEPT ![w] = "handling"]
                    /\ invocations' = [invocations EXCEPT ![j] = @ + 1]
               ELSE /\ wpc' = [wpc EXCEPT ![w] = "sendNoHandler"]
                    /\ UNCHANGED invocations
    /\ UNCHANGED << started, jobQueueClosed, resultQueue, resultQueueClosed,
                    quitClosed, ctxDone, stopPc, job, timers, panicked,
                    submitResult, failures, published, retryDropped,
                    resultDropped, expired >>
    /\ UNCHANGED notPool

\* worker: case <-wp.quit (return), or a nil job received from the closed,
\* empty job channel (return). defer wp.wg.Done().
WorkerQuit(w) ==
    /\ Alive
    /\ wpc[w] = "select"
    /\ quitClosed \/ (jobQueueClosed /\ jobQueue = << >>)
    /\ wpc' = [wpc EXCEPT ![w] = "exited"]
    /\ UNCHANGED << started, jobQueue, jobQueueClosed, resultQueue,
                    resultQueueClosed, quitClosed, ctxDone, stopPc, wjob, job,
                    timers, panicked, submitResult, invocations, failures,
                    published, retryDropped, resultDropped, expired >>
    /\ UNCHANGED notPool

\* processJob, no handler: wp.resultQueue <- &JobResult{..., ErrNoHandler},
\* a plain send: it waits for room and panics on a closed channel.
NoHandlerSendReady_NonBlocking == TRUE
NoHandlerSendReady == resultQueueClosed \/ Len(resultQueue) < ResultQueueCap

ProcessJobNoHandler(w) ==
    /\ Alive
    /\ wpc[w] = "sendNoHandler"
    /\ NoHandlerSendReady
    /\ LET j == wjob[w] IN
          IF resultQueueClosed
            THEN /\ panicked' = "worker"
                 /\ UNCHANGED << resultQueue, published, wpc, wjob >>
            ELSE /\ resultQueue' = Append(resultQueue, JobResult(j, "ErrNoHandler"))
                 /\ published' = [published EXCEPT ![j] = Append(@, "ErrNoHandler")]
                 /\ wpc' = [wpc EXCEPT ![w] = "select"]
                 /\ wjob' = [wjob EXCEPT ![w] = NoJob]
                 /\ UNCHANGED panicked
    /\ UNCHANGED << started, jobQueue, jobQueueClosed, resultQueueClosed,
                    quitClosed, ctxDone, stopPc, job, timers, submitResult,
                    invocations, failures, retryDropped, resultDropped,
                    expired >>
    /\ UNCHANGED notPool

\* if job.Retries < job.MaxRetries
ShouldRetry_Inclusive(j) == job[j].Retries <= job[j].MaxRetries
ShouldRetry(j) == job[j].Retries < job[j].MaxRetries

\* Whether processJob reaches "Send result" after an attempt: every path does
\* except the retry branch, which returns right after arming the timer.
SendsResult_NoReturn(j, e) == TRUE
SendsResult_OnFailureOnly(j, e) == e # "nil" /\ ~ShouldRetry(j)
SendsResult(j, e) == ~(e # "nil" /\ ShouldRetry(j))

\* backoff := time.Duration(job.Retries*job.Retries) * time.Second,
\* computed after job.Retries++.
Backoff_Linear(retries) == retries
Backoff(retries) == retries * retries

\* processJob from the return of handler.Handle (with error e) to its end:
\* the retry branch (job.Retries++, time.AfterFunc) or the non-blocking send
\* of the result, which drops the result when the result channel is full.
ProcessJobHandle(w, e) ==
    /\ Alive
    /\ wpc[w] = "handling"
    /\ LET j == wjob[w]
           retry == e # "nil" /\ ShouldRetry(j)
           sends == SendsResult(j, e)
           sendReady == resultQueueClosed \/ Len(resultQueue) < ResultQueueCap
       IN
          /\ failures' = [failures EXCEPT ![j] = IF e # "nil" THEN @ + 1 ELSE @]
          /\ expired' = [expired EXCEPT ![w] = FALSE]
          /\ IF retry
               THEN /\ job' = [job EXCEPT ![j].Retries = @ + 1]
                    /\ timers' = [timers EXCEPT ![j] = Backoff(job[j].Retries + 1)]
               ELSE UNCHANGED << job, timers >>
          /\ IF sends /\ sendReady /\ resultQueueClosed
               THEN /\ panicked' = "worker"
                    /\ UNCHANGED << resultQueue, published, resultDropped, wpc, wjob >>
               ELSE /\ UNCHANGED panicked
                    /\ wpc' = [wpc EXCEPT ![w] = "select"]
                    /\ wjob' = [wjob EXCEPT ![w] = NoJob]
                    /\ IF sends /\ sendReady
                         THEN /\ resultQueue' = Append(resultQueue, JobResult(j, e))
                              /\ published' = [published EXCEPT ![j] = Append(@, e)]
                              /\ UNCHANGED resultDropped
                         ELSE /\ resultDropped' =
                                    [resultDropped EXCEPT ![j] = @ \/ sends]
                              /\ UNCHANGED << resultQueue, published >>
    /\ UNCHANGED << started, jobQueue, jobQueueClosed, resultQueueClosed,
                    quitClosed, ctxDone, stopPc, submitResult, invocations,
                    retryDropped >>
    /\ UNCHANGED notPool

\* ctx, cancel := context.WithTimeout(wp.ctx, 30*time.Second): the deadline
\* passes while handler.Handle(ctx, job) is still executing. Nothing but the
\* handler itself looks at ctx: the call on line 165 is synchronous.
DeadlinePasses(w) ==
    /\ Alive
    /\ wpc[w] = "handling"
    /\ ~expired[w]
    /\ expired' = [expired EXCEPT ![w] = TRUE]
    /\ UNCHANGED << started, jobQueue, jobQueueClosed, resultQueue,
                    resultQueueClosed, quitClosed, ctxDone, stopPc, wpc, wjob,
                    job, timers, panicked, submitResult, invocations,
                    failures, published, retryDropped, resultDropped >>
    /\ UNCHANGED notPool

\* ------------------------------------------------------------ retry timer

\* The timer of time.AfterFunc fires once and is gone.
AfterFire_Periodic(j) == timers[j]
AfterFire(j) == 0

\* time.AfterFunc(backoff, func() { wp.SubmitJob(job) }): the callback runs on
\* its own goroutine and discards SubmitJob's error.
RetryTimer(j) ==
    /\ Alive
    /\ timers[j] > 0
    /\ \E r \in SubmitOutcomes :
          /\ jobQueue' = Enqueued(j, r)
          /\ panicked' = IF r = "panic" THEN "timer" ELSE panicked
          /\ retryDropped' = [retryDropped EXCEPT
                                ![j] = @ \/ r \in {"ErrQueueFull", "Canceled"}]
    /\ timers' = [timers EXCEPT ![j] = AfterFire(j)]
    /\ UNCHANGED << started, jobQueueClosed, resultQueue, resultQueueClosed,
                    quitClosed, ctxDone, stopPc, wpc, wjob, job, submitResult,
                    invocations, failures, published, resultDropped,
                    expired >>
    /\ UNCHANGED notPool

\* --------------------------------------------------------- processResults

\* Start, line 81: go wp.processResults()
ResultProcessorRunning_NeverLaunched == FALSE
ResultProcessorRunning == started

\* processResults: for result := range wp.resultQueue { log }
ProcessResults ==
    /\ Alive
    /\ ResultProcessorRunning
    /\ resultQueue # << >>
    /\ resultQueue' = Tail(resultQueue)
    /\ UNCHANGED << started, jobQueue, jobQueueClosed, resultQueueClosed,
                    quitClosed, ctxDone, stopPc, wpc, wjob, job, timers,
                    panicked, submitResult, invocations, failures, published,
                    retryDropped, resultDropped, expired >>
    /\ UNCHANGED notPool

\* ------------------------------------------------------------------- Stop

\* Stop, line 88: close(wp.quit). Called once, by the shutdown sequence, on a
\* started pool.
StopCloseQuit ==
    /\ Alive
    /\ started
    /\ stopPc = "idle"
    /\ quitClosed' = TRUE
    /\ stopPc' = "quitClosed"
    /\ UNCHANGED << started, jobQueue, jobQueueClosed, resultQueue,
                    resultQueueClosed, ctxDone, wpc, wjob, job, timers,
                    panicked, submitResult, invocations, failures, published,
                    retryDropped, resultDropped, expired >>
    /\ UNCHANGED notPool

\* Stop, line 89: wp.cancel()
StopCancel ==
    /\ Alive
    /\ stopPc = "quitClosed"
    /\ ctxDone' = TRUE
    /\ stopPc' = "cancelled"
    /\ UNCHANGED << started, jobQueue, jobQueueClosed, resultQueue,
                    resultQueueClosed, quitClosed, wpc, wjob, job, timers,
                    panicked, submitResult, invocations, failures, published,
                    retryDropped, resultDropped, expired >>
    /\ UNCHANGED notPool

\* wp.wg.Wait() returns once every worker has run its deferred wg.Done().
WgWaitDone_NoWait == TRUE
WgWaitDone == \A w \in Workers : wpc[w] = "exited"

\* Stop, line 90: wp.wg.Wait()
StopWait ==
    /\ Alive
    /\ stopPc = "cancelled"
    /\ WgWaitDone
    /\ stopPc' = "waited"
    /\ UNCHANGED << started, jobQueue, jobQueueClosed, resultQueue,
                    resultQueueClosed, quitClosed, ctxDone, wpc, wjob, job,
                    timers, panicked, submitResult, invocations, failures,
                    published, retryDropped, resultDropped, expired >>
    /\ UNCHANGED notPool

\* Stop, line 92: close(wp.jobQueue)
StopCloseJobQueue ==
    /\ Alive
    /\ stopPc = "waited"
    /\ jobQueueClosed' = TRUE
    /\ stopPc' = "jobQueueClosed"
    /\ UNCHANGED << started, jobQueue, resultQueue, resultQueueClosed,
                    quitClosed, ctxDone, wpc, wjob, job, timers, panicked,
                    submitResult, invocations, failures, published,
                    retryDropped, resultDropped, expired >>
    /\ UNCHANGED notPool

\* Stop, line 93: close(wp.resultQueue), then Stop returns.
StopCloseResultQueue ==
    /\ Alive
    /\ stopPc = "jobQueueClosed"
    /\ resultQueueClosed' = TRUE
    /\ stopPc' = "returned"
    /\ UNCHANGED << started, jobQueue, jobQueueClosed, resultQueue,
                    quitClosed, ctxDone, wpc, wjob, job, timers, panicked,
                    submitResult, invocations, failures, published,
                    retryDropped, resultDropped, expired >>
    /\ UNCHANGED notPool

\* ---------------------------------------------------------- specification

\* Errors a handler can return: none, or some error.
HandlerErrors == {"nil", "error"}

Next ==
    \/ Start
    \/ \E j \in Jobs, t \in JobTypes, m \in 0..MaxRetriesBound : SubmitJob(j, t, m)
    \/ \E w \in Workers : WorkerReceive(w)
    \/ \E w \in Workers : WorkerQuit(w)
    \/ \E w \in Workers : ProcessJobNoHandler(w)
    \/ \E w \in Workers : DeadlinePasses(w)
    \/ \E w \in Workers, e \in HandlerErrors : ProcessJobHandle(w, e)
    \/ \E j \in Jobs : RetryTimer(j)
    \/ ProcessResults
    \/ StopCloseQuit
    \/ StopCancel
    \/ StopWait
    \/ StopCloseJobQueue
    \/ StopCloseResultQueue

\* The worker pool, with the batch processor, the pipeline and the cache not
\* in use.
Init == PoolInit /\ BatchIdle /\ PipelineIdle /\ CacheIdle

Spec == Init /\ [][Next]_vars

\* The Go scheduler runs every runnable goroutine: the bootstrap calls Start,
\* a worker at its select proceeds, a handler returns, an armed timer fires,
\* the result processor drains, and a Stop that has begun runs to its end.
\* Nothing obliges a producer to submit or the shutdown sequence to begin.
Fairness ==
    /\ WF_vars(Start)
    /\ \A w \in Workers :
          /\ WF_vars(WorkerReceive(w))
          /\ WF_vars(WorkerQuit(w))
          /\ WF_vars(ProcessJobNoHandler(w))
          /\ WF_vars(\E e \in HandlerErrors : ProcessJobHandle(w, e))
    /\ \A j \in Jobs : WF_vars(RetryTimer(j))
    /\ WF_vars(ProcessResults)
    /\ WF_vars(StopCancel)
    /\ WF_vars(StopWait)
    /\ WF_vars(StopCloseJobQueue)
    /\ WF_vars(StopCloseResultQueue)

FairSpec == Spec /\ Fairness

\* ------------------------------------------------------- derived notions

\* SubmitJob returned nil for the producer's call on j.
Accepted(j) == submitResult[j] = "nil"

\* Number of slots of the job channel holding j.
QueuedCount(j) == Cardinality({i \in 1..Len(jobQueue) : jobQueue[i] = j})

\* Number of workers holding j (handling it, or sending its ErrNoHandler result).
HeldCount(j) == Cardinality({w \in Workers : wjob[w] = j})

\* handler.Handle is executing for j.
Running(j) == \E w \in Workers : wjob[w] = j /\ wpc[w] = "handling"

\* Number of places j is in: queued, held by a worker, waiting on a retry timer.
Places(j) == QueuedCount(j) + HeldCount(j) + (IF timers[j] > 0 THEN 1 ELSE 0)

\* j is in no place any more: nothing can happen to it again.
Quiescent(j) == Places(j) = 0

\* Every attempt on j so far that has returned, returned an error.
AllAttemptsFailed(j) ==
    failures[j] + (IF Running(j) THEN 1 ELSE 0) = invocations[j]

\* Every worker goroutine has returned.
WorkersDone == \A w \in Workers : wpc[w] = "exited"

\* Stop() has begun: the shutdown signal close(wp.quit) was given.
StopBegun == quitClosed

\* A worker leaves its select with a job in this step.
Dequeues(w) == wpc[w] = "select" /\ wpc'[w] \in {"handling", "sendNoHandler"}

\* The producer's SubmitJob call on j happens in this step.
SubmitCall(j) == submitResult[j] = "none" /\ submitResult'[j] # "none"

\* ------------------------------------------------------------------ claims

\* C1 (as claimed): every SubmitJob call made after Stop() has signalled
\* shutdown returns the pool-closed error (wp.ctx.Err() in the code), leaves
\* the job channel as it was and does not panic.
C1_SubmitAfterStopFails ==
    [][\A j \in Jobs :
          (StopBegun /\ SubmitCall(j)) =>
              /\ submitResult'[j] = "Canceled"
              /\ jobQueue' = jobQueue
              /\ panicked' = panicked]_vars

\* Before Start nothing drains the input queue: it holds exactly the accepted
\* jobs, and a call was refused only with the queue at capacity.
C2_Undrained ==
    ~started =>
        /\ SubmitOutcomes # {}
        /\ Len(jobQueue) = Cardinality({j \in Jobs : Accepted(j)})
        /\ Len(jobQueue) <= QueueCapacity
        /\ \A j \in Jobs : submitResult[j] \in {"none", "nil", "ErrQueueFull"}
        /\ (\E j \in Jobs : submitResult[j] = "ErrQueueFull")
              => Len(jobQueue) = QueueCapacity

\* C2: while the pool is not shut down SubmitJob never blocks; it returns nil
\* and appends the job when fewer than queueCapacity jobs are queued, and
\* returns ErrQueueFull and leaves the queue alone otherwise. Before Start
\* nothing drains the queue, so exactly the first queueCapacity calls succeed.
C2_SubmitUpToCapacity ==
    /\ []C2_Undrained
    /\ [][\A j \in Jobs :
             (~StopBegun /\ SubmitCall(j)) =>
                 IF Len(jobQueue) < QueueCapacity
                   THEN submitResult'[j] = "nil" /\ jobQueue' = Append(jobQueue, j)
                   ELSE submitResult'[j] = "ErrQueueFull" /\ jobQueue' = jobQueue]_vars

C2_Witness ==
    /\ ~started
    /\ Len(jobQueue) = QueueCapacity
    /\ \E j \in Jobs : submitResult[j] = "ErrQueueFull"

\* C3 (as claimed): an accepted job whose handler failed on every attempt and
\* that is in no place any more had its handler invoked exactly maxRetries+1
\* times and has exactly one JobResult, with success=false.
C3_ExactlyOneTerminalResult ==
    \A j \in Jobs :
        (Accepted(j) /\ job[j].Type \in handlers /\ Quiescent(j)
            /\ AllAttemptsFailed(j)) =>
            /\ invocations[j] = job[j].MaxRetries + 1
            /\ published[j] = << "error" >>

\* C3 (amended): for an accepted job with maxRetries = N whose handler failed
\* on every attempt, the handler is invoked at most N+1 times and at most one
\* JobResult is published; a published one has success=false and follows the
\* (N+1)-th invocation; for N = 0 no retry is armed or re-submitted.
C3_AtMostOneTerminalResult ==
    \A j \in Jobs :
        (Accepted(j) /\ job[j].Type \in handlers /\ AllAttemptsFailed(j)) =>
            /\ invocations[j] <= job[j].MaxRetries + 1
            /\ Len(published[j]) <= 1
            /\ published[j] # << >> =>
                  /\ published[j] = << "error" >>
                  /\ invocations[j] = job[j].MaxRetries + 1
                  /\ Quiescent(j)
            /\ job[j].MaxRetries = 0 =>
                  /\ timers[j] = 0
                  /\ job[j].Retries = 0
                  /\ ~retryDropped[j]
                  /\ invocations[j] = 1 => QueuedCount(j) = 0

C3_Witness ==
    \E j \in Jobs :
        /\ Accepted(j)
        /\ job[j].MaxRetries = MaxRetriesBound
        /\ failures[j] = MaxRetriesBound + 1
        /\ invocations[j] = MaxRetriesBound + 1
        /\ published[j] = << "error" >>

\* A job left in the input queue with every worker gone.
Abandoned(j) == QueuedCount(j) > 0 /\ WorkersDone

\* The ways a job's life ends.
Settled(j) ==
    \/ Len(published[j]) = 1
    \/ resultDropped[j]
    \/ retryDropped[j]
    \/ Abandoned(j)
    \/ ~Alive

\* C4 (as claimed): an accepted job that is in no place any more has exactly
\* one JobResult.
C4_EveryJobGetsResult ==
    \A j \in Jobs : (Accepted(j) /\ Quiescent(j)) => Len(published[j]) = 1

\* C4 (amended): on a pool that is started and whose handlers return, every
\* accepted job eventually ends in exactly one JobResult, or without one
\* because its result met a full result queue, its retry re-submission
\* failed, Stop left it in the input queue, or the process panicked on a
\* closed queue; and it never gets more than one JobResult.
C4_EveryJobSettles ==
    /\ [](\A j \in Jobs : Len(published[j]) <= 1)
    /\ \A j \in Jobs : Accepted(j) ~> Settled(j)

C4_Witness ==
    \E j, k \in Jobs :
        /\ Accepted(j) /\ Len(published[j]) = 1
        /\ Accepted(k) /\ Quiescent(k) /\ published[k] = << >>

\* C5: a job gets at most one JobResult; a result is published only by an
\* attempt that succeeded, by a failed attempt with retryCount = maxRetries,
\* or for a missing handler; and the step that arms a retry publishes nothing.
C5_PublishedOnlyAtEnd ==
    /\ [](\A j \in Jobs : Len(published[j]) <= 1)
    /\ [][\A j \in Jobs :
             /\ published'[j] # published[j] =>
                   \E w \in Workers :
                       /\ wjob[w] = j
                       /\ \/ /\ wpc[w] = "handling"
                             /\ published'[j] = << "nil" >>
                             /\ failures'[j] = failures[j]
                          \/ /\ wpc[w] = "handling"
                             /\ published'[j] = << "error" >>
                             /\ failures'[j] = failures[j] + 1
                             /\ job[j].Retries = job[j].MaxRetries
                             /\ job'[j] = job[j]
                             /\ timers'[j] = 0
                          \/ /\ wpc[w] = "sendNoHandler"
                             /\ published'[j] = << "ErrNoHandler" >>
             /\ (timers[j] = 0 /\ timers'[j] > 0) =>
                   /\ published'[j] = published[j]
                   /\ resultQueue' = resultQueue]_vars

C5_Witness ==
    \E j \in Jobs :
        /\ job[j].Retries >= 1
        /\ Len(published[j]) = 1
        /\ Quiescent(j)

\* From wg.Wait() on every worker has exited, the queues are closed only
\* with all workers gone, and no worker panicked on a closed queue.
C6_Quiesced ==
    /\ stopPc \in {"waited", "jobQueueClosed", "returned"} => WorkersDone
    /\ (jobQueueClosed \/ resultQueueClosed) => WorkersDone
    /\ stopPc = "returned" => \A j \in Jobs : ~Running(j)
    /\ panicked # "worker"

\* C6: from wg.Wait() on, every worker has exited, so when Stop() returns no
\* handler is executing; the queues are closed only with all workers gone, no
\* worker ever panics on a closed queue, and after Stop() has returned no
\* handler is invoked.
C6_StopWaitsForWorkers ==
    /\ []C6_Quiesced
    /\ [][stopPc = "returned" => invocations' = invocations]_vars

C6_Witness ==
    /\ stopPc = "cancelled"
    /\ \E w \in Workers : wpc[w] = "handling"

\* C7 (as claimed): once Stop() has signalled shutdown no worker takes a job
\* from the input queue.
C7_NoDequeueAfterSignal ==
    [][\A w \in Workers : StopBegun => ~Dequeues(w)]_vars

\* C8: a job is in at most one place (queued, held by a worker, waiting on a
\* retry timer), so at most one execution of it is outstanding and a retry
\* attempt starts only after the previous attempt returned.
C8_OnePlace ==
    \A j \in Jobs :
        /\ Places(j) <= 1
        /\ Cardinality({w \in Workers : wjob[w] = j /\ wpc[w] = "handling"}) <= 1
        /\ Running(j) => invocations[j] = failures[j] + 1

C8_Witness ==
    \E j \in Jobs : Running(j) /\ job[j].Retries >= 1

\* C9: retryCount <= maxRetries always; retryCount changes only by +1, and
\* only when an attempt failed while retryCount < maxRetries.
C9_RetriesBounded ==
    /\ [](\A j \in Jobs : 0 <= job[j].Retries /\ job[j].Retries <= job[j].MaxRetries)
    /\ [][\A j \in Jobs :
             job'[j].Retries # job[j].Retries =>
                 /\ job'[j].Retries = job[j].Retries + 1
                 /\ job[j].Retries < job[j].MaxRetries
                 /\ job'[j].MaxRetries = job[j].MaxRetries
                 /\ Running(j)
                 /\ failures'[j] = failures[j] + 1]_vars

C9_Witness ==
    \E j \in Jobs :
        /\ job[j].MaxRetries >= 1
        /\ job[j].Retries = job[j].MaxRetries
        /\ failures[j] = job[j].MaxRetries + 1

\* An accepted job whose type has no registered handler.
NoHandlerJob(j) == Accepted(j) /\ job[j].Type \notin handlers

\* C10: a job whose type has no registered handler never has a handler
\* invoked, never has its retryCount changed or a retry timer armed, and the
\* worker that dequeued it lets go of it only by publishing
\* JobResult{success=false, error=ErrNoHandler}.
C10_NoHandlerResult ==
    /\ [](\A j \in Jobs :
             NoHandlerJob(j) =>
                 /\ invocations[j] = 0
                 /\ ~Running(j)
                 /\ job[j].Retries = 0
                 /\ timers[j] = 0
                 /\ published[j] \in {<< >>, << "ErrNoHandler" >>})
    /\ [][\A j \in Jobs, w \in Workers :
             (NoHandlerJob(j) /\ wjob[w] = j /\ wjob'[w] # j) =>
                 /\ published'[j] = << "ErrNoHandler" >>
                 /\ resultQueue' = Append(resultQueue,
                        [JobID |-> j, Success |-> FALSE, Error |-> "ErrNoHandler"])]_vars

C10_Witness ==
    \E j \in Jobs :
        /\ NoHandlerJob(j)
        /\ job[j].MaxRetries >= 1
        /\ published[j] = << "ErrNoHandler" >>

\* C11 (as claimed): an attempt whose handler is still executing when the
\* per-job deadline passes ends as a failed attempt, whatever the handler
\* returns afterwards.
C11_LateAttemptFails ==
    [][\A w \in Workers :
          (wpc[w] = "handling" /\ expired[w] /\ wpc'[w] # "handling") =>
              failures'[wjob[w]] = failures[wjob[w]] + 1]_vars

\* ======================================================= batch processor

\* for i := 0; i < len(items); i += bp.batchSize
MoreBatches_FullOnly(i, size, n) == i + size <= n
MoreBatches(i, size, n) == i < n

\* end := i + bp.batchSize; if end > len(items) { end = len(items) }
BatchEnd(i, size, n) == IF i + size > n THEN n ELSE i + size

\* createBatches, from offset i on: append(batches, items[i:end]).
RECURSIVE CreateBatchesFrom(_, _, _)
CreateBatchesFrom(items, size, i) ==
    IF ~MoreBatches(i, size, Len(items))
      THEN << >>
      ELSE << SubSeq(items, i + 1, BatchEnd(i, size, Len(items))) >>
             \o CreateBatchesFrom(items, size, i + size)

createBatches(items, size) == CreateBatchesFrom(items, size, 0)

\* semaphore := make(chan struct{}, bp.maxWorkers)
SemaphoreCap_PerBatch == Len(batches)
SemaphoreCap_AtLeastOne == IF maxWorkers < 1 THEN 1 ELSE maxWorkers
SemaphoreCap == maxWorkers

\* What bp.processor can return: nil, or an error.
ProcessorErrors == {"nil", "error"}

\* A caller builds a processor and calls Process on some items.
BatchCall ==
    /\ batchSize \in 1..MaxBatchSize
    /\ bItems \in {[k \in 1..n |-> k] : n \in 0..(MaxBatches * batchSize)}
    /\ maxWorkers \in 0..MaxWorkersBound
    /\ bPc = "called"
    /\ batches = << >>
    /\ gpc = << >>
    /\ semaphore = 0
    /\ bErrChan = << >>
    /\ bRet = [returned |-> FALSE, err |-> NoError]
    /\ bInvoked = << >>
    /\ bOrder = << >>
    /\ bDoneOrder = << >>

\* Process, lines 39-89: return nil on empty input; otherwise create the
\* batches and start one goroutine per batch (wg.Add(1); go func...).
BatchProcessStart ==
    /\ bPc = "called"
    /\ IF Len(bItems) = 0
         THEN /\ bPc' = "returned"
              /\ bRet' = [returned |-> TRUE, err |-> NoError]
              /\ UNCHANGED << batches, gpc, bInvoked >>
         ELSE /\ bPc' = "wait"
              /\ batches' = createBatches(bItems, batchSize)
              /\ gpc' = [i \in 1..Len(batches') |-> "acquire"]
              /\ bInvoked' = [i \in 1..Len(batches') |-> 0]
              /\ UNCHANGED bRet
    /\ UNCHANGED << bItems, batchSize, maxWorkers, semaphore, bErrChan,
                    bOrder, bDoneOrder >>
    /\ UNCHANGED notBatch

\* Batch goroutine, lines 65-78: semaphore <- struct{}{} (waits for room),
\* then the call of bp.processor(batchCtx, batchItems) begins.
BatchAcquire(i) ==
    /\ gpc[i] = "acquire"
    /\ semaphore < SemaphoreCap
    /\ semaphore' = semaphore + 1
    /\ gpc' = [gpc EXCEPT ![i] = "running"]
    /\ bInvoked' = [bInvoked EXCEPT ![i] = @ + 1]
    /\ bOrder' = Append(bOrder, i)
    /\ UNCHANGED << bItems, batchSize, maxWorkers, bPc, batches, bErrChan,
                    bRet, bDoneOrder >>
    /\ UNCHANGED notBatch

\* defer func() { <-semaphore }() runs on every way out of the goroutine.
ReleasesSlot_OnSuccessOnly(e) == e = "nil"
ReleasesSlot(e) == TRUE

\* Batch goroutine, lines 78-88: bp.processor returns e; an error is sent to
\* errChan (buffered for one error per batch); the deferred calls release the
\* semaphore slot and run wg.Done().
BatchProcessorReturns(i, e) ==
    /\ gpc[i] = "running"
    /\ gpc' = [gpc EXCEPT ![i] = IF e = "nil" THEN "succeeded" ELSE "failed"]
    /\ bErrChan' = IF e = "nil" THEN bErrChan ELSE Append(bErrChan, i)
    /\ semaphore' = IF ReleasesSlot(e) THEN semaphore - 1 ELSE semaphore
    /\ bDoneOrder' = Append(bDoneOrder, i)
    /\ UNCHANGED << bItems, batchSize, maxWorkers, bPc, batches, bRet,
                    bInvoked, bOrder >>
    /\ UNCHANGED notBatch

\* wg.Wait() returns once every batch goroutine has run wg.Done().
BatchWgDone_NoWait == TRUE
BatchWgDone == \A i \in DOMAIN gpc : gpc[i] \in {"succeeded", "failed"}

\* return errors[0] // Return first error
FirstError_Last(errors) == errors[Len(errors)]
FirstError_Swallowed(errors) == NoError
FirstError(errors) == errors[1]

\* Process, lines 92-107: wg.Wait(); close(errChan); drain errChan into
\* errors; return errors[0], or nil when there is none.
BatchProcessWait ==
    /\ bPc = "wait"
    /\ BatchWgDone
    /\ bPc' = "returned"
    /\ bErrChan' = << >>
    /\ bRet' = [returned |-> TRUE,
                err |-> IF Len(bErrChan) > 0 THEN FirstError(bErrChan) ELSE NoError]
    /\ UNCHANGED << bItems, batchSize, maxWorkers, batches, gpc, semaphore,
                    bInvoked, bOrder, bDoneOrder >>
    /\ UNCHANGED notBatch

BatchNext ==
    \/ BatchProcessStart
    \/ \E i \in DOMAIN gpc : BatchAcquire(i)
    \/ \E i \in DOMAIN gpc, e \in ProcessorErrors : BatchProcessorReturns(i, e)
    \/ BatchProcessWait

\* One call of BatchProcessor.Process; the pool, the pipeline and the cache
\* not in use.
BatchInit == BatchCall /\ PoolInit /\ PipelineIdle /\ CacheIdle
BatchSpec == BatchInit /\ [][BatchNext]_vars

\* The caller's goroutine and every batch goroutine are scheduled, and the
\* processing function returns from every call.
BatchFairness ==
    /\ WF_vars(BatchProcessStart)
    /\ \A i \in 1..MaxBatches :
          /\ WF_vars(i \in DOMAIN gpc /\ BatchAcquire(i))
          /\ WF_vars(/\ i \in DOMAIN gpc
                     /\ \E e \in ProcessorErrors : BatchProcessorReturns(i, e))
    /\ WF_vars(BatchProcessWait)

FairBatchSpec == BatchSpec /\ BatchFairness

\* ------------------------------------------------ batch: derived notions

\* The batches whose processor call is in progress / returned an error.
BatchRunning == {i \in DOMAIN gpc : gpc[i] = "running"}
BatchFailed == {i \in DOMAIN gpc : gpc[i] = "failed"}

\* Position of batch i in the order the processor calls returned.
DonePos(i) == CHOOSE k \in 1..Len(bDoneOrder) : bDoneOrder[k] = i

\* The failed batch whose call returned (and recorded its error) first.
FirstRecorded ==
    CHOOSE i \in BatchFailed : \A k \in BatchFailed : DonePos(i) <= DonePos(k)

\* The failed batch with the lowest index.
LowestFailed == CHOOSE i \in BatchFailed : \A k \in BatchFailed : i <= k

\* The concatenation of a sequence of sequences.
RECURSIVE Concat(_)
Concat(ss) == IF ss = << >> THEN << >> ELSE Head(ss) \o Concat(Tail(ss))

\* ----------------------------------------------------------- batch: claims

C13_BoundedConcurrency ==
    /\ [](Cardinality(BatchRunning) <= maxWorkers)
    /\ [](semaphore = Cardinality(BatchRunning))
    /\ [][\A i \in DOMAIN gpc :
            /\ (gpc[i] = "acquire" /\ gpc'[i] = "running") =>
                   Cardinality(BatchRunning) < maxWorkers
            /\ (gpc[i] = "running" /\ gpc'[i] # "running") =>
                   /\ semaphore' = semaphore - 1
                   /\ Cardinality(BatchRunning') = Cardinality(BatchRunning) - 1]_vars

\* C13 witness: with one slot, a call that failed has ended, the next call is
\* in progress and a third batch is still waiting for the slot.
C13_Witness ==
    /\ maxWorkers = 1
    /\ BatchFailed # {}
    /\ BatchRunning # {}
    /\ \E i \in DOMAIN gpc : gpc[i] = "acquire"

\* C14: the processor is never called twice for a batch, and when Process
\* returns from a non-empty input it has been called exactly once for every
\* batch, also when other batches failed, and every call has returned.
C14_AllBatchesRunOnce ==
    /\ \A i \in DOMAIN bInvoked : bInvoked[i] <= 1
    /\ (bRet.returned /\ Len(bItems) > 0) =>
           /\ DOMAIN gpc = 1..Len(batches)
           /\ Len(batches) > 0
           /\ \A i \in DOMAIN gpc :
                 /\ bInvoked[i] = 1
                 /\ gpc[i] \in {"succeeded", "failed"}
           /\ BatchRunning = {}

\* C14 witness: Process returned an error after a batch failed before a
\* sibling was even started, and the sibling ran to success all the same.
C14_Witness ==
    /\ bRet.returned
    /\ bRet.err # NoError
    /\ \E i, k \in DOMAIN gpc :
          /\ gpc[i] = "failed"
          /\ gpc[k] = "succeeded"
          /\ DonePos(i) < DonePos(k)

\* C15: the batches are contiguous slices of items in input order whose
\* concatenation is items; each has between 1 and batchSize items, each but
\* the last exactly batchSize; there are ceil(len/batchSize) of them; and an
\* empty input leads to no processor call and a nil return.
C15_BatchesPartitionItems ==
    /\ bPc \in {"wait", "returned"} =>
          /\ Concat(batches) = bItems
          /\ Len(batches) = (Len(bItems) + batchSize - 1) \div batchSize
          /\ \A i \in 1..Len(batches) :
                /\ Len(batches[i]) >= 1
                /\ Len(batches[i]) <= batchSize
                /\ i < Len(batches) => Len(batches[i]) = batchSize
                /\ batches[i] =
                      SubSeq(bItems, (i - 1) * batchSize + 1,
                             (i - 1) * batchSize + Len(batches[i]))
    /\ Len(bItems) = 0 =>
          /\ bOrder = << >>
          /\ bInvoked = << >>
          /\ bPc # "wait"
          /\ bRet.returned => bRet.err = NoError

\* C15 witness: Process returned after the items were cut into several
\* batches of which the last is shorter than batchSize.
C15_Witness ==
    /\ bRet.returned
    /\ Len(batches) >= 2
    /\ Len(batches[Len(batches)]) < batchSize

\* One slot and 2*batchSize+1 items.
OneSlotThreeBatches == maxWorkers = 1 /\ Len(bItems) = 2 * batchSize + 1

\* C16 (as claimed): with one slot and 2*batchSize+1 items the processor call
\* that runs last is the one given the single-item batch.
C16_SingleItemRunsLast ==
    (OneSlotThreeBatches /\ bRet.returned) =>
        /\ Len(bOrder) = 3
        /\ Len(batches[bOrder[3]]) = 1

\* C16 (amended): with one slot and 2*batchSize+1 items there are exactly 3
\* processor calls, one per batch, no two overlapping (a call begins only
\* after every earlier one returned); the single-item batch is the third by
\* index, and it may be run first, second or last.
C16_ThreeSequentialCalls ==
    OneSlotThreeBatches =>
        /\ Cardinality(BatchRunning) <= 1
        /\ Len(bOrder) <= Len(bDoneOrder) + 1
        /\ \A k \in 1..Len(bDoneOrder) : bOrder[k] = bDoneOrder[k]
        /\ bRet.returned =>
              /\ Len(bOrder) = 3
              /\ {bOrder[k] : k \in 1..3} = {1, 2, 3}
              /\ Len(batches) = 3
              /\ Len(batches[1]) = batchSize
              /\ Len(batches[2]) = batchSize
              /\ Len(batches[3]) = 1

\* C16 witness: Process returned after the single-item batch was run first.
C16_Witness ==
    /\ OneSlotThreeBatches
    /\ batchSize >= 2
    /\ bRet.returned
    /\ bOrder[1] = 3

\* ================================================================ pipeline

\* The stages of a pipeline with n stages, numbered as in p.stages.
Stages == 0..(nStages - 1)

\* Item k of the input; path lists the stages that have emitted it.
Item(k) == [id |-> k, path |-> << >>]

\* if len(p.stages) == 0 { return items, nil }
NoStages_Never == FALSE
NoStages == nStages = 0

\* stageFunc(ctx, channels[stageIndex], channels[stageIndex+1])
StageIn(i) == i
StageOut_Last(i) == nStages
StageOut(i) == i + 1

\* channels[len(channels)-1], the channel the collector ranges over.
FinalChannel == nStages

\* What the work of a stage on one item comes to: nil, or an error.
StageErrors == {"nil", "error"}

\* The error returned by stage i.
StageError(i) == i + 1

\* A caller builds a pipeline of 0..MaxStages stages (NewPipeline, AddStage)
\* and calls Process on some items with a buffer size of at least 1.
PipelineCall ==
    /\ nStages \in 0..MaxStages
    /\ pItems \in {[k \in 1..n |-> Item(k)] : n \in 0..MaxPipelineItems}
    /\ bufferSize \in 1..MaxBufferSize
    /\ observes \in [Stages -> BOOLEAN]
    /\ pCtxDone = FALSE
    /\ pPc = "called"
    /\ channels = << >>
    /\ chClosed = << >>
    /\ fpc = "idle"
    /\ fIdx = 0
    /\ spc = << >>
    /\ cpc = "idle"
    /\ sheld = << >>
    /\ results = << >>
    /\ cheld = << >>
    /\ pErrChan = << >>
    /\ pRet = [returned |-> FALSE, results |-> << >>, err |-> NoError]
    /\ written = << >>

\* Process, lines 34-88: with no stages return items, nil; otherwise make the
\* len(stages)+1 channels and start the stage goroutines, the feeder and the
\* collector.
PipelineProcessStart ==
    /\ pPc = "called"
    /\ IF NoStages
         THEN /\ pPc' = "returned"
              /\ pRet' = [returned |-> TRUE, results |-> pItems, err |-> NoError]
              /\ UNCHANGED << channels, chClosed, fpc, spc, cpc, sheld >>
         ELSE /\ pPc' = "wait"
              /\ channels' = [k \in 0..nStages |-> << >>]
              /\ chClosed' = [k \in 0..nStages |-> FALSE]
              /\ spc' = [i \in Stages |-> "recv"]
              /\ sheld' = [i \in Stages |-> << >>]
              /\ fpc' = "feeding"
              /\ cpc' = "running"
              /\ UNCHANGED pRet
    /\ UNCHANGED << pItems, nStages, bufferSize, pCtxDone, fIdx, observes,
                    results, cheld, pErrChan, written >>
    /\ UNCHANGED notPipeline

\* The caller's ctx is cancelled while Process runs.
CallerCancel ==
    /\ pPc \in {"called", "wait"}
    /\ ~pCtxDone
    /\ pCtxDone' = TRUE
    /\ UNCHANGED << pItems, nStages, bufferSize, pPc, channels, chClosed, fpc,
                    fIdx, spc, observes, cpc, sheld, results, cheld, pErrChan,
                    pRet, written >>
    /\ UNCHANGED notPipeline

\* Feeder, line 75: case channels[0] <- item, taken when the buffer has room.
FeederSend ==
    /\ fpc = "feeding"
    /\ fIdx < Len(pItems)
    /\ Len(channels[0]) < bufferSize
    /\ channels' = [channels EXCEPT ![0] = Append(@, pItems[fIdx + 1])]
    /\ fIdx' = fIdx + 1
    /\ UNCHANGED << pItems, nStages, bufferSize, pCtxDone, pPc, chClosed, fpc,
                    spc, observes, cpc, sheld, results, cheld, pErrChan, pRet,
                    written >>
    /\ UNCHANGED notPipeline

\* Feeder, lines 72 and 76-79: the loop ends after the last item, or
\* case <-ctx.Done() returns early; the deferred close(channels[0]) runs.
FeederDone_OnCancelOnly == pCtxDone
FeederDone == fIdx = Len(pItems) \/ pCtxDone

FeederReturn ==
    /\ fpc = "feeding"
    /\ FeederDone
    /\ fpc' = "done"
    /\ chClosed' = [chClosed EXCEPT ![0] = TRUE]
    /\ UNCHANGED << pItems, nStages, bufferSize, pCtxDone, pPc, channels, fIdx,
                    spc, observes, cpc, sheld, results, cheld, pErrChan, pRet,
                    written >>
    /\ UNCHANGED notPipeline

\* The stage goroutine's way out, lines 56-64: an error is sent to errChan
\* (buffered for one error per stage), close(channels[stageIndex+1]) and
\* wg.Done() run.
StageExit(i, e) ==
    /\ spc' = [spc EXCEPT ![i] = IF e = "nil" THEN "done" ELSE "failed"]
    /\ pErrChan' = IF e = "nil" THEN pErrChan ELSE Append(pErrChan, StageError(i))
    /\ chClosed' = [chClosed EXCEPT ![StageOut(i)] = TRUE]

\* Stage function: it receives the next item of its input channel; its work
\* on the item succeeds (the item is held for sending) or fails (the function
\* returns the error).
StageReceive(i, e) ==
    /\ spc[i] = "recv"
    /\ Len(channels[StageIn(i)]) > 0
    /\ channels' = [channels EXCEPT ![StageIn(i)] = Tail(@)]
    /\ IF e = "nil"
         THEN /\ spc' = [spc EXCEPT ![i] = "send"]
              /\ sheld' = [sheld EXCEPT ![i] = << Head(channels[StageIn(i)]) >>]
              /\ UNCHANGED << pErrChan, chClosed >>
         ELSE /\ StageExit(i, e)
              /\ UNCHANGED sheld
    /\ UNCHANGED << pItems, nStages, bufferSize, pCtxDone, pPc, fpc, fIdx,
                    observes, cpc, results, cheld, pRet, written >>
    /\ UNCHANGED notPipeline

\* Stage function: it sends the item it holds to its output channel, which
\* takes it when the buffer has room.
StageSend(i) ==
    /\ spc[i] = "send"
    /\ Len(channels[StageOut(i)]) < bufferSize
    /\ LET item == [sheld[i][1] EXCEPT !.path = Append(@, i)]
       IN  /\ channels' = [channels EXCEPT ![StageOut(i)] = Append(@, item)]
           /\ written' = IF StageOut(i) = FinalChannel
                           THEN Append(written, item) ELSE written
    /\ sheld' = [sheld EXCEPT ![i] = << >>]
    /\ spc' = [spc EXCEPT ![i] = "recv"]
    /\ UNCHANGED << pItems, nStages, bufferSize, pCtxDone, pPc, chClosed, fpc,
                    fIdx, observes, cpc, results, cheld, pErrChan, pRet >>
    /\ UNCHANGED notPipeline

\* Stage function: its input channel is closed and drained, it returns nil.
StageReturn(i) ==
    /\ spc[i] = "recv"
    /\ Len(channels[StageIn(i)]) = 0
    /\ chClosed[StageIn(i)]
    /\ StageExit(i, "nil")
    /\ UNCHANGED << pItems, nStages, bufferSize, pCtxDone, pPc, channels, fpc,
                    fIdx, observes, cpc, sheld, results, cheld, pRet, written >>
    /\ UNCHANGED notPipeline

\* Stage function: it returns an error instead of reading its next item.
StageFail(i) ==
    /\ spc[i] = "recv"
    /\ StageExit(i, "error")
    /\ UNCHANGED << pItems, nStages, bufferSize, pCtxDone, pPc, channels, fpc,
                    fIdx, observes, cpc, sheld, results, cheld, pRet, written >>
    /\ UNCHANGED notPipeline

\* Stage function that selects on ctx.Done() around its channel operations:
\* once ctx is cancelled it can return ctx.Err() from a receive or a send.
StageCtxDone(i) ==
    /\ observes[i]
    /\ pCtxDone
    /\ spc[i] \in {"recv", "send"}
    /\ StageExit(i, "error")
    /\ UNCHANGED << pItems, nStages, bufferSize, pCtxDone, pPc, channels, fpc,
                    fIdx, observes, cpc, sheld, results, cheld, pRet, written >>
    /\ UNCHANGED notPipeline

\* Collector, line 85: the range loop receives the next item of the final
\* channel.
CollectorReceive ==
    /\ cpc = "running"
    /\ Len(cheld) = 0
    /\ Len(channels[FinalChannel]) > 0
    /\ cheld' = << Head(channels[FinalChannel]) >>
    /\ channels' = [channels EXCEPT ![FinalChannel] = Tail(@)]
    /\ UNCHANGED << pItems, nStages, bufferSize, pCtxDone, pPc, chClosed, fpc,
                    fIdx, spc, observes, cpc, sheld, results, pErrChan, pRet,
                    written >>
    /\ UNCHANGED notPipeline

\* Collector, line 86: results = append(results, item).
CollectorAppend ==
    /\ cpc = "running"
    /\ Len(cheld) > 0
    /\ results' = results \o cheld
    /\ cheld' = << >>
    /\ UNCHANGED << pItems, nStages, bufferSize, pCtxDone, pPc, channels,
                    chClosed, fpc, fIdx, spc, observes, cpc, sheld, pErrChan,
                    pRet, written >>
    /\ UNCHANGED notPipeline

\* Collector, lines 85-88: the final channel is closed and drained, the range
\* loop and the goroutine end.
CollectorReturn ==
    /\ cpc = "running"
    /\ Len(cheld) = 0
    /\ Len(channels[FinalChannel]) = 0
    /\ chClosed[FinalChannel]
    /\ cpc' = "done"
    /\ UNCHANGED << pItems, nStages, bufferSize, pCtxDone, pPc, channels,
                    chClosed, fpc, fIdx, spc, observes, sheld, results, cheld,
                    pErrChan, pRet, written >>
    /\ UNCHANGED notPipeline

\* wg.Wait() returns once every stage goroutine has run wg.Done(); the feeder
\* and the collector are not counted in wg.
PipelineWgDone_FirstError ==
    (\A i \in Stages : spc[i] \in {"done", "failed"}) \/ Len(pErrChan) > 0
PipelineWgDone == \A i \in Stages : spc[i] \in {"done", "failed"}

\* What the read of results on line 102 can yield. The collector writes
\* results without synchronisation: the read sees the slice before or after
\* an append that is in progress.
ResultsRead ==
    {results} \cup (IF cpc = "running" /\ Len(cheld) > 0
                      THEN {results \o cheld} ELSE {})

\* Process, lines 91-102: wg.Wait(); close(errChan); return nil and the first
\* error of errChan, or results and nil when there is none.
PipelineProcessWait ==
    /\ pPc = "wait"
    /\ PipelineWgDone
    /\ pPc' = "returned"
    /\ IF Len(pErrChan) > 0
         THEN /\ pRet' = [returned |-> TRUE, results |-> << >>,
                          err |-> Head(pErrChan)]
              /\ pErrChan' = Tail(pErrChan)
         ELSE /\ \E r \in ResultsRead :
                    pRet' = [returned |-> TRUE, results |-> r, err |-> NoError]
              /\ UNCHANGED pErrChan
    /\ UNCHANGED << pItems, nStages, bufferSize, pCtxDone, channels, chClosed,
                    fpc, fIdx, spc, observes, cpc, sheld, results, cheld,
                    written >>
    /\ UNCHANGED notPipeline

PipelineNext ==
    \/ PipelineProcessStart
    \/ CallerCancel
    \/ FeederSend
    \/ FeederReturn
    \/ \E i \in DOMAIN spc, e \in StageErrors : StageReceive(i, e)
    \/ \E i \in DOMAIN spc : StageSend(i)
    \/ \E i \in DOMAIN spc : StageReturn(i)
    \/ \E i \in DOMAIN spc : StageFail(i)
    \/ \E i \in DOMAIN spc : StageCtxDone(i)
    \/ CollectorReceive
    \/ CollectorAppend
    \/ CollectorReturn
    \/ PipelineProcessWait

\* One call of Pipeline.Process; the pool, the batch processor and the cache
\* not in use.
PipelineInit == PipelineCall /\ PoolInit /\ BatchIdle /\ CacheIdle
PipelineSpec == PipelineInit /\ [][PipelineNext]_vars

\* The caller's goroutine, the feeder, the collector and every stage goroutine
\* are scheduled, and a stage function that can read, forward or see the end
\* of its input does so. Nothing obliges the caller to cancel ctx or a stage
\* to fail.
PipelineFairness ==
    /\ WF_vars(PipelineProcessStart)
    /\ WF_vars(FeederSend)
    /\ WF_vars(FeederReturn)
    /\ \A i \in 0..(MaxStages - 1) :
          /\ WF_vars(i \in DOMAIN spc /\ StageReceive(i, "nil"))
          /\ WF_vars(i \in DOMAIN spc /\ StageSend(i))
          /\ WF_vars(i \in DOMAIN spc /\ StageReturn(i))
    /\ WF_vars(CollectorReceive)
    /\ WF_vars(CollectorAppend)
    /\ WF_vars(CollectorReturn)
    /\ WF_vars(PipelineProcessWait)

FairPipelineSpec == PipelineSpec /\ PipelineFairness

\* --------------------------------------------- pipeline: derived notions

\* The stages whose function returned an error.
StagesFailed == {i \in DOMAIN spc : spc[i] = "failed"}

\* <<0, 1, ..., k-1>>: the stages an item has passed when it is in channel k.
PathTo(k) == [j \in 1..k |-> j - 1]

\* -------------------------------------------------------- pipeline: claims

\* C17 (as claimed): when every stage returned without error, what Process
\* returns is every item the last stage wrote to the final channel, in order,
\* none lost.
C17_NothingLost ==
    (pRet.returned /\ nStages > 0 /\ StagesFailed = {}) =>
        /\ pRet.err = NoError
        /\ pRet.results = written

\* C18 (as claimed): once a stage has returned an error the run comes to an
\* end with Process returning: as long as Process has not returned, some step
\* of the run is still possible.
C18_ErrorEndsRun ==
    (StagesFailed # {} /\ ~pRet.returned) => ENABLED PipelineNext

\* C19: with zero stages Process returns the input sequence as it is, with a
\* nil error, and no channel, feeder, stage or collector is ever started.
C19_NoStagesReturnsInput ==
    nStages = 0 =>
        /\ fpc = "idle"
        /\ cpc = "idle"
        /\ DOMAIN spc = {}
        /\ DOMAIN channels = {}
        /\ results = << >>
        /\ pRet.returned => (pRet.results = pItems /\ pRet.err = NoError)

\* C19 witness: Process returned from a pipeline without stages given two
\* items.
C19_Witness ==
    /\ nStages = 0
    /\ pRet.returned
    /\ Len(pItems) = 2
    /\ pRet.results = pItems

\* Every item of the sequence q has been emitted by exactly the stages
\* 0..k-1, in that order.
AllPassed(q, k) == \A x \in DOMAIN q : q[x].path = PathTo(k)

\* C20: stage i takes items only from channel i and puts items only into
\* channel i+1: an item waiting in channel k or held by stage k has been
\* emitted by the stages before k in the order they were added, and an item
\* of the result by all of them.
C20_StagesWiredInOrder ==
    /\ [](/\ \A k \in DOMAIN channels : AllPassed(channels[k], k)
          /\ \A i \in DOMAIN sheld : AllPassed(sheld[i], i)
          /\ AllPassed(cheld, nStages)
          /\ AllPassed(results, nStages)
          /\ nStages > 0 => AllPassed(pRet.results, nStages))
    /\ [][\A i \in DOMAIN spc :
            /\ (spc[i] = "recv" /\ spc'[i] = "send") =>
                  /\ sheld'[i] = << Head(channels[i]) >>
                  /\ channels' = [channels EXCEPT ![i] = Tail(@)]
            /\ (spc[i] = "send" /\ spc'[i] = "recv") =>
                  /\ Len(channels'[i + 1]) = Len(channels[i + 1]) + 1
                  /\ \A k \in DOMAIN channels :
                        k # i + 1 => channels'[k] = channels[k]]_vars

\* C20 witness: Process returned an item that passed through two stages.
C20_Witness ==
    /\ nStages >= 2
    /\ pRet.returned
    /\ Len(pRet.results) > 0
    /\ pRet.results[1].path = << 0, 1 >>

\* =============================================================== TTL cache

\* The keys and values the callers use, and the goroutines calling the cache.
Keys == {"k1", "k2"}
Values == {"a", "b"}
Callers == {"c1", "c2"}

\* var zero V
ZeroValue == "zero"

\* The mutex is held by nobody.
NoHolder == "none"

\* A caller that is in no method; no Get or Size has returned since the last
\* call (a return is kept with the time it was made at).
NoCall == [method |-> "none", key |-> "none", value |-> ZeroValue]
NoRet == [method |-> "none", key |-> "none", value |-> ZeroValue,
          found |-> FALSE, size |-> 0, at |-> 0]

\* No Set of the key is in force. A Set in force is kept with its value, its
\* time, and whether it overwrote an expired item that was still stored.
NoWrite == [set |-> FALSE, value |-> ZeroValue, at |-> 0, over |-> FALSE]

\* The calls a caller can make: Set(k, v), Get(k), Delete(k), Clear(), Size().
Calls ==
    {[method |-> "Set", key |-> k, value |-> v] : k \in Keys, v \in Values}
      \cup {[method |-> m, key |-> k, value |-> ZeroValue] :
               m \in {"Get", "Delete"}, k \in Keys}
      \cup {[method |-> m, key |-> "none", value |-> ZeroValue] :
               m \in {"Clear", "Size"}}

\* The methods that take c.mutex.Lock(); Get and Size take c.mutex.RLock().
LockingMethods == {"Set", "Delete", "Clear"}

\* CacheItem.IsExpired: time.Now().After(ci.ExpiresAt)
IsExpired_AtDeadline(ci) == now >= ci.ExpiresAt
IsExpired(ci) == now > ci.ExpiresAt

\* time.NewTicker(c.ttl / 2)
SweepPeriod == cTtl \div 2

\* The ticker, created when the cache is (time 0), sends a tick at every
\* multiple of its period.
TickerFires_Once(t) == t = SweepPeriod
TickerFires(t) == t % SweepPeriod = 0

\* NewConcurrentCache(ttl): an empty map, the ttl, and go cache.cleanup().
\* The ttl is at least 2 clock ticks, so that ttl/2 is a positive period.
NewConcurrentCache ==
    /\ cItems = << >>
    /\ cTtl \in 2..MaxTtl
    /\ now = 0
    /\ mutexWriter = NoHolder
    /\ mutexReaders = {}
    /\ callOp = [c \in Callers |-> NoCall]
    /\ callRet = NoRet
    /\ cleanupPc = "ticker"
    /\ tickerC = FALSE
    /\ lastWrite = [k \in Keys |-> NoWrite]

\* Time passes; the ticker puts a tick into ticker.C when its period is up
\* (a tick is dropped when the channel still holds one).
Tick ==
    /\ cleanupPc # "idle"
    /\ now < MaxTime
    /\ now' = now + 1
    /\ tickerC' = (tickerC \/ TickerFires(now + 1))
    /\ UNCHANGED << cItems, cTtl, mutexWriter, mutexReaders, callOp, callRet,
                    cleanupPc, lastWrite >>
    /\ UNCHANGED notCache

\* sync.RWMutex: Lock() is granted when nobody holds the mutex; RLock() when
\* no writer holds it and the cleanup goroutine is not waiting in Lock() (a
\* blocked Lock call keeps new readers out).
CanLock_IgnoresReaders == mutexWriter = NoHolder
CanLock == mutexWriter = NoHolder /\ mutexReaders = {}
CanRLock == mutexWriter = NoHolder /\ cleanupPc # "lock"

\* A goroutine calls a method of the cache, and the c.mutex.Lock() or
\* c.mutex.RLock() on the method's first line returns. The caller has taken
\* what the previous Get or Size returned.
Lock(c, op) ==
    /\ callOp[c] = NoCall
    /\ IF op.method \in LockingMethods
         THEN /\ CanLock
              /\ mutexWriter' = c
              /\ UNCHANGED mutexReaders
         ELSE /\ CanRLock
              /\ mutexReaders' = mutexReaders \cup {c}
              /\ UNCHANGED mutexWriter
    /\ callOp' = [callOp EXCEPT ![c] = op]
    /\ callRet' = NoRet
    /\ UNCHANGED << cItems, cTtl, now, cleanupPc, tickerC, lastWrite >>
    /\ UNCHANGED notCache

\* The caller is past its Lock/RLock, in the body of method m.
InMethod(c, m) == callOp[c].method = m

\* The deferred Unlock / RUnlock and the return of the method.
Unlocked(c) ==
    /\ callOp' = [callOp EXCEPT ![c] = NoCall]
    /\ mutexWriter' = IF mutexWriter = c THEN NoHolder ELSE mutexWriter
    /\ mutexReaders' = mutexReaders \ {c}

\* ExpiresAt: time.Now().Add(c.ttl), whatever the key held before.
NewExpiry_KeepsOld(k) ==
    IF k \in DOMAIN cItems THEN cItems[k].ExpiresAt ELSE now + cTtl
NewExpiry(k) == now + cTtl

\* Set: c.items[key] = &CacheItem{Value: value, ExpiresAt: time.Now().Add(c.ttl)}
Set(c) ==
    /\ InMethod(c, "Set")
    /\ LET k == callOp[c].key
           ci == [Value |-> callOp[c].value, ExpiresAt |-> NewExpiry(k)]
       IN  /\ cItems' = [x \in DOMAIN cItems \cup {k} |->
                            IF x = k THEN ci ELSE cItems[x]]
           /\ lastWrite' = [lastWrite EXCEPT ![k] =
                               [set |-> TRUE, value |-> callOp[c].value,
                                at |-> now,
                                over |-> k \in DOMAIN cItems /\ now > cItems[k].ExpiresAt]]
    /\ Unlocked(c)
    /\ UNCHANGED << cTtl, now, callRet, cleanupPc, tickerC >>
    /\ UNCHANGED notCache

\* Get: zero, false when the key is absent or its item expired; otherwise
\* item.Value, true.
Get(c) ==
    /\ InMethod(c, "Get")
    /\ LET k == callOp[c].key
           hit == k \in DOMAIN cItems /\ ~IsExpired(cItems[k])
       IN  callRet' = [method |-> "Get", key |-> k,
                       value |-> IF hit THEN cItems[k].Value ELSE ZeroValue,
                       found |-> hit, size |-> 0, at |-> now]
    /\ Unlocked(c)
    /\ UNCHANGED << cItems, cTtl, now, cleanupPc, tickerC, lastWrite >>
    /\ UNCHANGED notCache

\* Delete: delete(c.items, key)
Delete(c) ==
    /\ InMethod(c, "Delete")
    /\ LET k == callOp[c].key
       IN  /\ cItems' = [x \in DOMAIN cItems \ {k} |-> cItems[x]]
           /\ lastWrite' = [lastWrite EXCEPT ![k] = NoWrite]
    /\ Unlocked(c)
    /\ UNCHANGED << cTtl, now, callRet, cleanupPc, tickerC >>
    /\ UNCHANGED notCache

\* Clear: c.items = make(map[K]*CacheItem[V])
Clear(c) ==
    /\ InMethod(c, "Clear")
    /\ cItems' = << >>
    /\ lastWrite' = [k \in Keys |-> NoWrite]
    /\ Unlocked(c)
    /\ UNCHANGED << cTtl, now, callRet, cleanupPc, tickerC >>
    /\ UNCHANGED notCache

\* len(c.items)
CacheLen_Unexpired == Cardinality({k \in DOMAIN cItems : ~IsExpired(cItems[k])})
CacheLen == Cardinality(DOMAIN cItems)

\* Size: return len(c.items)
Size(c) ==
    /\ InMethod(c, "Size")
    /\ callRet' = [method |-> "Size", key |-> "none", value |-> ZeroValue,
                   found |-> FALSE, size |-> CacheLen, at |-> now]
    /\ Unlocked(c)
    /\ UNCHANGED << cItems, cTtl, now, cleanupPc, tickerC, lastWrite >>
    /\ UNCHANGED notCache

\* cleanup, line 217: for range ticker.C receives a tick.
CleanupTick ==
    /\ cleanupPc = "ticker"
    /\ tickerC
    /\ tickerC' = FALSE
    /\ cleanupPc' = "lock"
    /\ UNCHANGED << cItems, cTtl, now, mutexWriter, mutexReaders, callOp,
                    callRet, lastWrite >>
    /\ UNCHANGED notCache

\* cleanup, line 218: c.mutex.Lock() returns.
CleanupLock ==
    /\ cleanupPc = "lock"
    /\ CanLock
    /\ UNCHANGED tickerC
    /\ mutexWriter' = "cleanup"
    /\ cleanupPc' = "in"
    /\ UNCHANGED << cItems, cTtl, now, mutexReaders, callOp, callRet, lastWrite >>
    /\ UNCHANGED notCache

\* cleanup, lines 219-224: delete every item with IsExpired(), then Unlock().
CleanupPass ==
    /\ cleanupPc = "in"
    /\ cItems' = [k \in {x \in DOMAIN cItems : ~IsExpired(cItems[x])} |-> cItems[k]]
    /\ mutexWriter' = NoHolder
    /\ cleanupPc' = "ticker"
    /\ UNCHANGED << cTtl, now, mutexReaders, callOp, callRet, tickerC, lastWrite >>
    /\ UNCHANGED notCache

CacheNext ==
    \/ Tick
    \/ \E c \in DOMAIN callOp, op \in Calls : Lock(c, op)
    \/ \E c \in DOMAIN callOp : Set(c)
    \/ \E c \in DOMAIN callOp : Get(c)
    \/ \E c \in DOMAIN callOp : Delete(c)
    \/ \E c \in DOMAIN callOp : Clear(c)
    \/ \E c \in DOMAIN callOp : Size(c)
    \/ CleanupTick
    \/ CleanupLock
    \/ CleanupPass

\* One cache and its callers; the pool, the batch processor and the pipeline
\* not in use.
CacheInit == NewConcurrentCache /\ PoolInit /\ BatchIdle /\ PipelineIdle
CacheSpec == CacheInit /\ [][CacheNext]_vars

\* Time passes, the cleanup goroutine is scheduled, a method that holds the
\* mutex runs to its Unlock, and the cleanup goroutine waiting in Lock() is
\* not starved (sync.RWMutex hands the lock to a waiting writer). Nothing
\* obliges a caller to call the cache at all.
CacheFairness ==
    /\ WF_vars(Tick)
    /\ WF_vars(CleanupTick)
    /\ SF_vars(CleanupLock)
    /\ WF_vars(CleanupPass)
    /\ \A c \in Callers :
          WF_vars(Set(c) \/ Get(c) \/ Delete(c) \/ Clear(c) \/ Size(c))

FairCacheSpec == CacheSpec /\ CacheFairness

\* ------------------------------------------------ cache: derived notions

\* Caller c returns from method m in this step.
Returns(c, m) == callOp[c].method = m /\ callOp'[c] = NoCall

\* The goroutines inside a critical section of the cache.
InSection ==
    {c \in DOMAIN callOp : callOp[c] # NoCall}
      \cup (IF cleanupPc = "in" THEN {"cleanup"} ELSE {})

\* The goroutine is inside Get or Size.
Reading(p) == p \in DOMAIN callOp /\ callOp[p].method \in {"Get", "Size"}

\* Key k is stored with an item whose expiry lies a sweep period or more
\* before the end of the clock: a tick of the ticker comes after its expiry.
SweepDue(k) ==
    k \in DOMAIN cItems /\ cItems[k].ExpiresAt + SweepPeriod <= MaxTime

\* ----------------------------------------------------------- cache: claims

\* C21: when the most recent Set(k, v), made at time t, has not been undone
\* by a Delete or Clear, Get(k) returns (v, true) while now <= t + ttl and
\* found = false once now > t + ttl, whether the sweep has removed the item
\* or not.
C21_GetFollowsLatestSet ==
    [][\A c \in DOMAIN callOp :
          (Returns(c, "Get") /\ lastWrite[callOp[c].key].set) =>
              LET w == lastWrite[callOp[c].key]
              IN  /\ callRet'.method = "Get"
                  /\ callRet'.key = callOp[c].key
                  /\ callRet'.found = (now <= w.at + cTtl)
                  /\ callRet'.found => callRet'.value = w.value]_vars

\* C21 witness: a Get returned found = false for a key whose item had expired
\* and is still stored, the sweep not having removed it.
C21_Witness ==
    /\ callRet.method = "Get"
    /\ ~callRet.found
    /\ callRet.key \in DOMAIN cItems
    /\ callRet.at > cItems[callRet.key].ExpiresAt

\* C22: Get and Size leave the stored items as they are: an expired item read
\* by Get is reported absent and stays stored, and Size returns the number of
\* stored items, the expired ones included.
C22_ReadsChangeNothing ==
    [][\A c \in DOMAIN callOp :
          /\ (Returns(c, "Get") \/ Returns(c, "Size")) => cItems' = cItems
          /\ (/\ Returns(c, "Get")
              /\ callOp[c].key \in DOMAIN cItems
              /\ now > cItems[callOp[c].key].ExpiresAt) =>
                 /\ ~callRet'.found
                 /\ callOp[c].key \in DOMAIN cItems'
          /\ Returns(c, "Size") =>
                 callRet'.size = Cardinality(DOMAIN cItems)]_vars

\* C22 witness: Size returned 1 or more at a time when a stored item had
\* already expired.
C22_Witness ==
    /\ callRet.method = "Size"
    /\ callRet.size >= 1
    /\ callRet.size = Cardinality(DOMAIN cItems)
    /\ \E k \in DOMAIN cItems : callRet.at > cItems[k].ExpiresAt

\* C23: every stored item holds the value of the most recent Set of its key
\* and expires at the time of that Set plus ttl; a Set replaces value and
\* expiry also when the key held an expired item, and no step other than a
\* Set of the key changes a stored item.
C23_ExpiryIsLastSetPlusTtl ==
    /\ [](\A k \in DOMAIN cItems :
             /\ lastWrite[k].set
             /\ cItems[k].ExpiresAt = lastWrite[k].at + cTtl
             /\ cItems[k].Value = lastWrite[k].value)
    /\ [][/\ \A c \in DOMAIN callOp :
                Returns(c, "Set") =>
                    cItems'[callOp[c].key] =
                        [Value |-> callOp[c].value, ExpiresAt |-> now + cTtl]
          /\ \A k \in DOMAIN cItems \cap DOMAIN cItems' :
                cItems'[k] # cItems[k] =>
                    \E c \in DOMAIN callOp :
                        Returns(c, "Set") /\ callOp[c].key = k]_vars

\* C23 witness: a key whose expired item was still stored was set again, and
\* a Get of it then found the new value.
C23_Witness ==
    /\ callRet.method = "Get"
    /\ callRet.found
    /\ lastWrite[callRet.key].over
    /\ callRet.value = lastWrite[callRet.key].value

\* C24: two goroutines are inside critical sections of the cache at the same
\* time only when both are in Get or Size; Set, Delete, Clear and a sweep pass
\* are each alone.
C24_MutualExclusion ==
    \A p, q \in InSection : p # q => (Reading(p) /\ Reading(q))

\* C24 witness: two callers are inside Get at the same time.
C24_Witness ==
    \E p, q \in DOMAIN callOp :
        /\ p # q
        /\ callOp[p].method = "Get"
        /\ callOp[q].method = "Get"

\* C25: a sweep pass removes exactly the items with now > ExpiresAt and
\* leaves the other items as they are; and an item that expires a sweep
\* period or more before the end of the clock is eventually removed or
\* replaced, whether or not anybody calls Get.
C25_SweepRemovesExpired ==
    /\ [][(cleanupPc = "in" /\ cleanupPc' # "in") =>
             /\ DOMAIN cItems' = {k \in DOMAIN cItems : ~(now > cItems[k].ExpiresAt)}
             /\ \A k \in DOMAIN cItems' : cItems'[k] = cItems[k]]_vars
    /\ \A k \in Keys : SweepDue(k) ~> ~SweepDue(k)

\* C25 witness: a sweep pass has removed the expired item of a key while the
\* item of the other key, not expired, was left stored.
C25_Witness ==
    \E k, x \in Keys :
        /\ lastWrite[k].set
        /\ k \notin DOMAIN cItems
        /\ x \in DOMAIN cItems
        /\ now <= cItems[x].ExpiresAt

\* ------------------------------------------------- worker pool: more claims

\* The retry timer of job j fires in this step: its callback calls SubmitJob.
TimerFires(j) == timers[j] > 0 /\ timers'[j] = 0

\* q is p with zero or more items added at the tail.
Extends(q, p) == Len(q) >= Len(p) /\ SubSeq(q, 1, Len(p)) = p

\* C26 (as claimed): a retry timer that fires after Stop() closed the queues
\* ends in a failed re-submission: the job is not enqueued and the callback
\* does not panic on the closed job channel.
C26_LateRetryFailsCleanly ==
    [][\A j \in Jobs :
          (TimerFires(j) /\ jobQueueClosed) =>
              /\ jobQueue' = jobQueue
              /\ panicked' = "none"]_vars

\* C27: a retry re-submission that finds the job channel full drops the job:
\* nothing is enqueued, no timer is armed for it again and it is in no place
\* any more, so no handler runs for it again; and the worker that armed the
\* timer went back to its select without waiting for the delay or for the
\* re-submission.
C27_FullQueueDropsRetry ==
    /\ [](\A j \in Jobs : retryDropped[j] => Places(j) = 0)
    /\ [][\A j \in Jobs :
            (/\ TimerFires(j)
             /\ Len(jobQueue) = QueueCapacity
             /\ ~ctxDone
             /\ ~jobQueueClosed) =>
                /\ jobQueue' = jobQueue
                /\ retryDropped'[j]
                /\ wpc' = wpc
                /\ wjob' = wjob
                /\ invocations' = invocations
                /\ panicked' = panicked]_vars
    /\ [][\A w \in Workers :
            (/\ wpc[w] = "handling"
             /\ timers[wjob[w]] = 0
             /\ timers'[wjob[w]] > 0) =>
                wpc'[w] = "select"]_vars

\* C27 witness: before any shutdown, the retry of a job that failed once met
\* a full job channel and was dropped.
C27_Witness ==
    \E j \in Jobs :
        /\ retryDropped[j]
        /\ ~quitClosed
        /\ ~ctxDone
        /\ invocations[j] = 1
        /\ failures[j] = 1
        /\ Len(jobQueue) = QueueCapacity

\* C28: a worker that ends a handled job with a result to send (success, or
\* failure with no retry left) while the result channel is full does not
\* wait: the result is discarded, the queued results stay as they are and the
\* worker is back at its select.
C28_FullResultQueueDropsResult ==
    [][\A w \in Workers :
          (/\ wpc[w] = "handling"
           /\ wpc'[w] # "handling"
           /\ timers' = timers
           /\ Len(resultQueue) = QueueCapacity
           /\ ~resultQueueClosed) =>
              /\ resultQueue' = resultQueue
              /\ published' = published
              /\ resultDropped'[wjob[w]]
              /\ wpc'[w] = "select"
              /\ wjob'[w] = NoJob]_vars

\* C28 witness: a job's result was discarded at a full result channel and the
\* worker is at its select again.
C28_Witness ==
    \E j \in Jobs :
        /\ resultDropped[j]
        /\ published[j] = << >>
        /\ Len(resultQueue) = QueueCapacity
        /\ ~resultQueueClosed
        /\ \A w \in Workers : wpc[w] = "select"

\* C29: once every worker has returned nothing is taken from the job
\* channel, no handler is invoked and no result is published: the jobs left
\* in the channel stay there, Stop included, and one that never ran has no
\* JobResult.
C29_AbandonedJobsStayQueued ==
    /\ [][WorkersDone =>
             /\ Extends(jobQueue', jobQueue)
             /\ invocations' = invocations
             /\ published' = published
             /\ WorkersDone']_vars
    /\ [](\A j \in Jobs :
             (Abandoned(j) /\ invocations[j] = 0) => published[j] = << >>)

\* C29 witness: Stop() has returned and a job that never ran is still in the
\* job channel, without a result.
C29_Witness ==
    \E j \in Jobs :
        /\ stopPc = "returned"
        /\ QueuedCount(j) > 0
        /\ invocations[j] = 0
        /\ published[j] = << >>

\* ------------------------------------------------- pipeline: more claims

\* Stage i returns an error in this step.
Fails(i) == spc[i] # "failed" /\ spc'[i] = "failed"

\* C30: a stage error cancels nothing: the step in which a stage fails
\* leaves ctx, the feeder, the other stages and the buffered items as they
\* are and closes only that stage's output channel; and Process returns, with
\* or without an error, only when every stage function has returned.
C30_FailureCancelsNothing ==
    /\ [][\A i \in DOMAIN spc :
            Fails(i) =>
                /\ pCtxDone' = pCtxDone
                /\ fpc' = fpc
                /\ fIdx' = fIdx
                /\ cpc' = cpc
                /\ pPc' = pPc
                /\ \A k \in DOMAIN spc : k # i => spc'[k] = spc[k]
                /\ \A k \in DOMAIN chClosed :
                      k # i + 1 => chClosed'[k] = chClosed[k]]_vars
    /\ [](pRet.returned =>
             \A i \in DOMAIN spc : spc[i] \in {"done", "failed"})

\* C30 witness: Process returned an error of the first stage, and the second
\* stage, which returns only once its input is closed, ran to its end after
\* that failure.
C30_Witness ==
    /\ pRet.returned
    /\ pRet.err = 1
    /\ nStages = 2
    /\ spc[0] = "failed"
    /\ spc[1] = "done"
    /\ fpc = "done"


\* ------------------------------------------- worker pool: retries and states

\* A handler attempt of job j ends with an error in this step.
AttemptFails(j) == failures'[j] = failures[j] + 1

JobState(j) ==
    IF ~Accepted(j) THEN "None"
    ELSE IF QueuedCount(j) > 0 THEN "Queued"
    ELSE IF HeldCount(j) > 0 THEN "Running"
    ELSE IF timers[j] > 0 THEN "FailedRetrying"
    ELSE IF invocations[j] > failures[j] THEN "Succeeded"
    ELSE IF invocations[j] = 0 \/ failures[j] > job[j].Retries
           THEN "FailedTerminal"
    ELSE "Dropped"

\* The transitions of the state machine "Queued -> Running -> {Succeeded |
\* Failed-Retrying -> Queued | Failed-Terminal}", with the submission that
\* makes a job Queued.
StateMachine ==
    { << "None", "Queued" >>,
      << "Queued", "Running" >>,
      << "Running", "Succeeded" >>,
      << "Running", "FailedRetrying" >>,
      << "FailedRetrying", "Queued" >>,
      << "Running", "FailedTerminal" >> }

\* Job j is dequeued, executed or given a result in this step.
Touched(j) ==
    \/ QueuedCount(j)' < QueuedCount(j)
    \/ invocations'[j] # invocations[j]
    \/ published'[j] # published[j]
    \/ resultDropped'[j] # resultDropped[j]

\* Every change of a job's state is in the transition set T, a handler is
\* invoked for a job only on its step from Queued to Running, and Succeeded
\* and FailedTerminal are absorbing.
FollowsOnly(T) ==
    \A j \in Jobs :
        /\ JobState(j)' # JobState(j) =>
              << JobState(j), JobState(j)' >> \in T
        /\ invocations'[j] # invocations[j] =>
              (JobState(j) = "Queued" /\ JobState(j)' = "Running")
        /\ JobState(j) \in {"Succeeded", "FailedTerminal"} =>
              (JobState(j)' = JobState(j) /\ ~Touched(j))

\* C32 (as claimed): every job follows only the transitions Queued -> Running,
\* Running -> Succeeded, Running -> Failed-Retrying -> Queued and Running ->
\* Failed-Terminal, and Succeeded and Failed-Terminal are absorbing.
C32_OnlyListedTransitions == [][FollowsOnly(StateMachine)]_vars

\* C32 (amended): the same, with one more transition: from Failed-Retrying a
\* job whose re-submission is not accepted leaves the state machine (Dropped)
\* instead of going back to Queued, and stays there: it is never dequeued,
\* executed or given a result again.
C32_TransitionsWithDrop ==
    /\ [][FollowsOnly(StateMachine \cup
                       { << "FailedRetrying", "Dropped" >> })]_vars
    /\ [][\A j \in Jobs :
            JobState(j) = "Dropped" =>
                (JobState(j)' = "Dropped" /\ ~Touched(j))]_vars

\* C32 witness: one job went Queued, Running, Failed-Retrying, Queued,
\* Running, Succeeded, and the retry of another was dropped.
C32_Witness ==
    \E j, k \in Jobs :
        /\ JobState(j) = "Succeeded"
        /\ invocations[j] = 2
        /\ failures[j] = 1
        /\ JobState(k) = "Dropped"

\* The worker goroutines that exist (launched, whether or not they returned).
WorkerGoroutines == {w \in Workers : wpc[w] # "notStarted"}

\* The handler executions in progress: workers inside handler.Handle.
InProgress == {w \in Workers : wpc[w] = "handling"}

GetStats_QueuesSwapped ==
    [Workers |-> NumWorkers,
     QueuedJobs |-> Len(resultQueue),
     QueueCapacity |-> JobQueueCap,
     PendingResults |-> Len(jobQueue)]
GetStats ==
    [Workers |-> NumWorkers,
     QueuedJobs |-> Len(jobQueue),
     QueueCapacity |-> JobQueueCap,
     PendingResults |-> Len(resultQueue)]

\* No handler attempt has returned an error so far.
HandlersSucceed == \A j \in Jobs : failures[j] = 0

\* Stop() has not been called so far.
NoStop == stopPc = "idle" /\ ~quitClosed

\* C34 (as claimed): with workers started, handlers that always succeed, no
\* Stop and finitely many submissions, every accepted job gets its result
\* and the queue depth GetStats reports is eventually 0 for good.
C34_EveryAcceptedJobGetsResult ==
    ([](HandlersSucceed /\ NoStop) /\ <>started) =>
        /\ \A j \in Jobs : Accepted(j) ~> (published[j] # << >>)
        /\ <>[](GetStats.QueuedJobs = 0)

\* C34 (amended): under the same conditions every accepted job is taken from
\* the queue and run, and its result is either published or, when the result
\* channel was full at that moment, discarded; the queue depth GetStats
\* reports is eventually 0 for good.
C34_EveryAcceptedJobIsRun ==
    ([](HandlersSucceed /\ NoStop) /\ <>started) =>
        /\ \A j \in Jobs :
              Accepted(j) ~>
                  /\ Quiescent(j)
                  /\ published[j] # << >> \/ resultDropped[j]
        /\ <>[](GetStats.QueuedJobs = 0)

\* C34 witness: with no failure and no Stop, one job has its result, the
\* result of another was discarded, and the reported queue depth is 0 again.
C34_Witness ==
    /\ started
    /\ HandlersSucceed
    /\ NoStop
    /\ GetStats.QueuedJobs = 0
    /\ \E j, k \in Jobs :
          /\ published[j] = << "nil" >>
          /\ resultDropped[k]
          /\ published[k] = << >>

\* ------------------------------------------------ worker pool: SubmitJob

\* The error returns of SubmitJob: ErrQueueFull and ctx.Err().
SubmitErrors == {"ErrQueueFull", "Canceled"}

\* The retry timer's SubmitJob call for job j returns an error in this step.
RetryRefused(j) == TimerFires(j) /\ ~retryDropped[j] /\ retryDropped'[j]

NoHandlerSendWaits(w) ==
    /\ wpc[w] = "sendNoHandler"
    /\ Len(resultQueue) = ResultQueueCap
    /\ ~resultQueueClosed

\* C37: the ErrNoHandler result of a job without a handler is sent with a
\* blocking send. It is never dropped; while the result channel is full the
\* worker stays in the send, keeps the job and takes no other job; and it
\* leaves the send only by putting the result at the tail of the result
\* channel.
C37_NoHandlerSendBlocks ==
    /\ [](\A j \in Jobs : NoHandlerJob(j) => ~resultDropped[j])
    /\ [][\A w \in Workers :
            NoHandlerSendWaits(w) =>
                /\ wpc'[w] = "sendNoHandler"
                /\ wjob'[w] = wjob[w]
                /\ invocations' = invocations
                /\ jobQueue' = jobQueue \/ Extends(jobQueue', jobQueue)]_vars
    /\ [][\A w \in Workers :
            (wpc[w] = "sendNoHandler" /\ wpc'[w] # "sendNoHandler") =>
                /\ Len(resultQueue) < ResultQueueCap
                /\ resultQueue' =
                      Append(resultQueue, JobResult(wjob[w], "ErrNoHandler"))
                /\ wpc'[w] = "select"]_vars

\* C37 witness: a worker waits in the send of an ErrNoHandler result because
\* the result channel is full of the results of other jobs, one of them the
\* result of a handled job.
C37_Witness ==
    \E w \in Workers :
        /\ NoHandlerSendWaits(w)
        /\ NoHandlerJob(wjob[w])
        /\ \A i \in 1..Len(resultQueue) : resultQueue[i].JobID # wjob[w]
        /\ \E i \in 1..Len(resultQueue) : resultQueue[i].Error = "nil"

\* C39: in every reachable state the snapshot GetStats returns has
\* 0 <= QueuedJobs <= QueueCapacity and 0 <= PendingResults <= QueueCapacity,
\* Workers and QueueCapacity are the arguments NewWorkerPool was given, and
\* QueuedJobs and PendingResults are the current lengths of the job channel
\* and the result channel. GetStats only reads: the snapshot is a function of
\* the state and taking it is no step of the pool.
C39_StatsWithinCapacity ==
    /\ GetStats.QueuedJobs \in 0..QueueCapacity
    /\ GetStats.PendingResults \in 0..QueueCapacity
    /\ GetStats.Workers = NumWorkers
    /\ GetStats.QueueCapacity = QueueCapacity
    /\ GetStats.QueuedJobs = Len(jobQueue)
    /\ GetStats.PendingResults = Len(resultQueue)

\* C39 witness: the job channel is full while the result channel is empty,
\* after a result was published and drained.
C39_Witness ==
    /\ GetStats.QueuedJobs = QueueCapacity
    /\ GetStats.PendingResults = 0
    /\ \E j \in Jobs : published[j] # << >>

\* ------------------------------------------------------ batch: more claims

\* The batches whose processor call returned nil.
BatchSucceeded == {i \in DOMAIN gpc : gpc[i] = "succeeded"}

\* C38: Process returns nil if and only if every batch's processor call
\* returned nil (for an empty input there is no batch), and a non-nil return
\* value is the error returned by one of the batches of this call.
C38_NilIffAllBatchesNil ==
    bRet.returned =>
        /\ bRet.err = NoError <=> BatchSucceeded = DOMAIN batches
        /\ bRet.err # NoError => bRet.err \in BatchFailed

\* C38 witness: Process returned the error of a batch while another batch of
\* the call had returned nil.
C38_Witness ==
    /\ bRet.returned
    /\ bRet.err \in BatchFailed
    /\ BatchSucceeded # {}

\* C40: over a non-empty input, with batchSize >= 1 and a processing
\* function that returns from every call, Process returns when
\* maxWorkers >= 1; with maxWorkers = 0 no batch ever acquires a slot, the
\* processing function is never called and Process never returns.
C40_TerminatesIffWorkers ==
    /\ (Len(bItems) > 0 /\ maxWorkers >= 1) ~> bRet.returned
    /\ []((Len(bItems) > 0 /\ maxWorkers = 0) =>
              /\ ~bRet.returned
              /\ bOrder = << >>
              /\ \A i \in DOMAIN gpc : gpc[i] = "acquire")

\* C40 witness: with maxWorkers = 0, Process is in wg.Wait() and every batch
\* goroutine is in the send on the semaphore, for good.
C40_Witness ==
    /\ maxWorkers = 0
    /\ bPc = "wait"
    /\ Len(batches) >= 2
    /\ \A i \in DOMAIN gpc : gpc[i] = "acquire"
    /\ ~ENABLED BatchNext

\* ---------------------------------------------------- pipeline: termination

\* Every stage goroutine has returned and closed its output channel.
AllStagesClosed ==
    /\ DOMAIN spc # {}
    /\ \A i \in DOMAIN spc : spc[i] = "done" /\ chClosed[StageOut(i)]

\* C35: when ctx is never cancelled and no stage fails (every stage reads its
\* input until it is closed and then returns nil), the feeder pushes the
\* items one by one, in order, into channel 0 and closes it after the last;
\* the output channel of a stage is closed exactly when the stage has
\* returned; the close reaches the final channel; and Process returns.
C35_CleanRunTerminates ==
    /\ [][fIdx' # fIdx =>
            /\ fIdx' = fIdx + 1
            /\ channels'[0] = Append(channels[0], pItems[fIdx'])]_vars
    /\ []((fpc = "done" /\ ~pCtxDone) => (chClosed[0] /\ fIdx = Len(pItems)))
    /\ [](\A i \in DOMAIN spc :
            chClosed[StageOut(i)] <=> spc[i] \in {"done", "failed"})
    /\ ([](~pCtxDone /\ StagesFailed = {})) =>
          /\ nStages > 0 ~> (fpc = "done" /\ chClosed[0])
          /\ nStages > 0 ~> (AllStagesClosed /\ chClosed[FinalChannel])
          /\ <>pRet.returned

\* C35 witness: a run of all the stages over all the items, with no
\* cancellation and no failure, has ended: the feeder pushed every item and
\* closed channel 0, every stage returned and closed its output channel, the
\* last stage wrote every item, and Process returned.
C35_Witness ==
    /\ nStages = MaxStages
    /\ Len(pItems) = MaxPipelineItems
    /\ ~pCtxDone
    /\ StagesFailed = {}
    /\ fpc = "done"
    /\ fIdx = Len(pItems)
    /\ chClosed[0]
    /\ AllStagesClosed
    /\ Len(written) = Len(pItems)
    /\ pRet.returned

====
